---- MODULE Spec2Model ----
(***************************************************************************)
(* GGUF extractor: the binary reader (analyze_gguf), the directory-based   *)
(* mount / edit / save workflow of GGUFExtractor, and the repackaging      *)
(* step, modelled from src/GGUF-Extractor/gguf_extractor.py.               *)
(*                                                                         *)
(* Files are sequences of bytes (0..255).  Python str values are sequences *)
(* of code points.  Python values are records [t, v] tagged with the       *)
(* Python type.  A dict is the sequence of its [k, v] items in insertion   *)
(* order.                                                                  *)
(***************************************************************************)
EXTENDS Integers, Sequences, FiniteSets, TLC

\* ------------------------------------------------------------------------
\* String literals of the source, as sequences of code points
\* ------------------------------------------------------------------------
\* "general.architecture"
S_general_architecture ==
    << 103, 101, 110, 101, 114, 97, 108, 46, 97, 114, 99, 104, 105, 116, 101, 99, 116, 117, 114, 101 >>

\* "general.name"
S_general_name ==
    << 103, 101, 110, 101, 114, 97, 108, 46, 110, 97, 109, 101 >>

\* "general.source.url"
S_general_source_url ==
    << 103, 101, 110, 101, 114, 97, 108, 46, 115, 111, 117, 114, 99, 101, 46, 117, 114, 108 >>

\* "general.source.huggingface.repository"
S_general_source_huggingface_repository ==
    << 103, 101, 110, 101, 114, 97, 108, 46, 115, 111, 117, 114, 99, 101, 46, 104, 117, 103, 103, 105, 110, 103, 102, 97, 99, 101, 46, 114, 101, 112, 111, 115, 105, 116, 111, 114, 121 >>

\* "training.dataset"
S_training_dataset ==
    << 116, 114, 97, 105, 110, 105, 110, 103, 46, 100, 97, 116, 97, 115, 101, 116 >>

\* "training.data_url"
S_training_data_url ==
    << 116, 114, 97, 105, 110, 105, 110, 103, 46, 100, 97, 116, 97, 95, 117, 114, 108 >>

\* "general.license"
S_general_license ==
    << 103, 101, 110, 101, 114, 97, 108, 46, 108, 105, 99, 101, 110, 115, 101 >>

\* "general.base_model.source"
S_general_base_model_source ==
    << 103, 101, 110, 101, 114, 97, 108, 46, 98, 97, 115, 101, 95, 109, 111, 100, 101, 108, 46, 115, 111, 117, 114, 99, 101 >>

\* "tokenizer.ggml.model"
S_tokenizer_ggml_model ==
    << 116, 111, 107, 101, 110, 105, 122, 101, 114, 46, 103, 103, 109, 108, 46, 109, 111, 100, 101, 108 >>

\* "tokenizer.ggml.tokens"
S_tokenizer_ggml_tokens ==
    << 116, 111, 107, 101, 110, 105, 122, 101, 114, 46, 103, 103, 109, 108, 46, 116, 111, 107, 101, 110, 115 >>

\* "tokenizer.ggml.scores"
S_tokenizer_ggml_scores ==
    << 116, 111, 107, 101, 110, 105, 122, 101, 114, 46, 103, 103, 109, 108, 46, 115, 99, 111, 114, 101, 115 >>

\* "tokenizer.ggml.token_type"
S_tokenizer_ggml_token_type ==
    << 116, 111, 107, 101, 110, 105, 122, 101, 114, 46, 103, 103, 109, 108, 46, 116, 111, 107, 101, 110, 95, 116, 121, 112, 101 >>

\* "tokenizer.ggml.merges"
S_tokenizer_ggml_merges ==
    << 116, 111, 107, 101, 110, 105, 122, 101, 114, 46, 103, 103, 109, 108, 46, 109, 101, 114, 103, 101, 115 >>

\* "tokenizer.ggml.added_tokens"
S_tokenizer_ggml_added_tokens ==
    << 116, 111, 107, 101, 110, 105, 122, 101, 114, 46, 103, 103, 109, 108, 46, 97, 100, 100, 101, 100, 95, 116, 111, 107, 101, 110, 115 >>

\* "general.vocab_size"
S_general_vocab_size ==
    << 103, 101, 110, 101, 114, 97, 108, 46, 118, 111, 99, 97, 98, 95, 115, 105, 122, 101 >>

\* "llama.vocab_size"
S_llama_vocab_size ==
    << 108, 108, 97, 109, 97, 46, 118, 111, 99, 97, 98, 95, 115, 105, 122, 101 >>

\* "qwen.vocab_size"
S_qwen_vocab_size ==
    << 113, 119, 101, 110, 46, 118, 111, 99, 97, 98, 95, 115, 105, 122, 101 >>

\* "general.parameter_count"
S_general_parameter_count ==
    << 103, 101, 110, 101, 114, 97, 108, 46, 112, 97, 114, 97, 109, 101, 116, 101, 114, 95, 99, 111, 117, 110, 116 >>

\* "llama.context_length"
S_llama_context_length ==
    << 108, 108, 97, 109, 97, 46, 99, 111, 110, 116, 101, 120, 116, 95, 108, 101, 110, 103, 116, 104 >>

\* "llama.embedding_length"
S_llama_embedding_length ==
    << 108, 108, 97, 109, 97, 46, 101, 109, 98, 101, 100, 100, 105, 110, 103, 95, 108, 101, 110, 103, 116, 104 >>

\* "llama.block_count"
S_llama_block_count ==
    << 108, 108, 97, 109, 97, 46, 98, 108, 111, 99, 107, 95, 99, 111, 117, 110, 116 >>

\* "llama.feed_forward_length"
S_llama_feed_forward_length ==
    << 108, 108, 97, 109, 97, 46, 102, 101, 101, 100, 95, 102, 111, 114, 119, 97, 114, 100, 95, 108, 101, 110, 103, 116, 104 >>

\* "llama.attention.head_count"
S_llama_attention_head_count ==
    << 108, 108, 97, 109, 97, 46, 97, 116, 116, 101, 110, 116, 105, 111, 110, 46, 104, 101, 97, 100, 95, 99, 111, 117, 110, 116 >>

\* "llama.attention.head_count_kv"
S_llama_attention_head_count_kv ==
    << 108, 108, 97, 109, 97, 46, 97, 116, 116, 101, 110, 116, 105, 111, 110, 46, 104, 101, 97, 100, 95, 99, 111, 117, 110, 116, 95, 107, 118 >>

\* "llama"
S_llama ==
    << 108, 108, 97, 109, 97 >>

\* "qwen"
S_qwen ==
    << 113, 119, 101, 110 >>

\* "unknown"
S_unknown ==
    << 117, 110, 107, 110, 111, 119, 110 >>

\* "tok_embd"
S_tok_embd ==
    << 116, 111, 107, 95, 101, 109, 98, 100 >>

\* "a"
S_a ==
    << 97 >>

\* "b"
S_b ==
    << 98 >>

\* "c"
S_c ==
    << 99 >>

\* "tokenizer"
S_tokenizer ==
    << 116, 111, 107, 101, 110, 105, 122, 101, 114 >>

\* "_fixed"
S_fixed ==
    << 95, 102, 105, 120, 101, 100 >>

\* "model"
S_model ==
    << 109, 111, 100, 101, 108 >>

\* "tokens"
S_tokens ==
    << 116, 111, 107, 101, 110, 115 >>

\* "scores"
S_scores ==
    << 115, 99, 111, 114, 101, 115 >>

\* "vocab"
S_vocab ==
    << 118, 111, 99, 97, 98 >>

\* "<|end|>"
S_end ==
    << 60, 124, 101, 110, 100, 124, 62 >>

\* "<|end|> talking"
S_end_talking ==
    << 60, 124, 101, 110, 100, 124, 62, 32, 116, 97, 108, 107, 105, 110, 103 >>

\* "talking <|end|>"
S_talking_end ==
    << 116, 97, 108, 107, 105, 110, 103, 32, 60, 124, 101, 110, 100, 124, 62 >>

\* "gpt2"
S_gpt2 ==
    << 103, 112, 116, 50 >>

\* "x.y"
S_x_y ==
    << 120, 46, 121 >>

\* ------------------------------------------------------------------------
\* Integers on the wire
\* ------------------------------------------------------------------------

\* Decoded integers of 2^31 - 1 or more are all represented by Huge.
Huge == 127 * 16777216 + 16777215

Min(a, b) == IF a < b THEN a ELSE b

ByteAt(b, i) == IF i <= Len(b) THEN b[i] ELSE 0

\* struct.unpack('<B' | '<H' | '<I' | '<Q', b)[0] for a buffer of full width
UIntLE(b) ==
    IF (\E i \in 5..Len(b) : b[i] # 0) \/ ByteAt(b, 4) >= 128
    THEN Huge
    ELSE ByteAt(b, 1) + 256 * ByteAt(b, 2) + 65536 * ByteAt(b, 3)
         + 16777216 * ByteAt(b, 4)

\* struct.unpack('<b' | '<h' | '<i', b)[0]: two's complement
SIntLE(b) ==
    IF b[Len(b)] < 128
    THEN UIntLE(b)
    ELSE LET c == [i \in 1..Len(b) |-> 255 - b[i]]
         IN  0 - UIntLE(c) - 1

\* struct.pack('<I' | '<Q', n): used to lay out the input files
RECURSIVE PackLE(_, _)
PackLE(n, w) == IF w = 0 THEN << >> ELSE << n % 256 >> \o PackLE(n \div 256, w - 1)

\* ------------------------------------------------------------------------
\* Python values
\* ------------------------------------------------------------------------
PyInt(n)   == [t |-> "int",   v |-> n]
PyFloat(b) == [t |-> "float", v |-> b]   \* the four bytes of the float32
PyBool(b)  == [t |-> "bool",  v |-> b]
PyStr(s)   == [t |-> "str",   v |-> s]
PyList(l)  == [t |-> "list",  v |-> l]
PyDict(d)  == [t |-> "dict",  v |-> d]

\* dict: sequence of items [k, v] in insertion order, keys unique
DictKeys(d) == [i \in 1..Len(d) |-> d[i].k]

DictHas(d, key) == \E i \in 1..Len(d) : d[i].k = key

DictIndex(d, key) == CHOOSE i \in 1..Len(d) : d[i].k = key

\* d[key]
DictGet(d, key) == d[DictIndex(d, key)].v

\* d.get(key, default)
DictGetDefault(d, key, default) == IF DictHas(d, key) THEN DictGet(d, key) ELSE default

\* d[key] = value: an existing key keeps its position
DictSet(d, key, value) ==
    IF DictHas(d, key)
    THEN [d EXCEPT ![DictIndex(d, key)].v = value]
    ELSE Append(d, [k |-> key, v |-> value])

\* del d[key]
DictDel(d, key) ==
    LET i == DictIndex(d, key)
    IN  SubSeq(d, 1, i - 1) \o SubSeq(d, i + 1, Len(d))

\* ------------------------------------------------------------------------
\* The file object: f.read(n) and bytes.decode('utf-8')
\* ------------------------------------------------------------------------

\* f.read(n) at offset pos: at most n bytes, fewer at end of file
f_read(bs, pos, n) ==
    IF n >= Len(bs) - pos THEN SubSeq(bs, pos + 1, Len(bs))
    ELSE SubSeq(bs, pos + 1, pos + n)

IsCont(b, i) == i <= Len(b) /\ b[i] >= 128 /\ b[i] <= 191

\* number of bytes of the UTF-8 sequence that starts at b[i]; 0 if invalid
Utf8Width(b, i) ==
    LET c == b[i] IN
    IF c < 128 THEN 1
    ELSE IF c >= 194 /\ c <= 223 /\ IsCont(b, i + 1) THEN 2
    ELSE IF c >= 224 /\ c <= 239 /\ IsCont(b, i + 1) /\ IsCont(b, i + 2)
            /\ (c = 224 => b[i + 1] >= 160) /\ (c = 237 => b[i + 1] <= 159) THEN 3
    ELSE IF c >= 240 /\ c <= 244 /\ IsCont(b, i + 1) /\ IsCont(b, i + 2) /\ IsCont(b, i + 3)
            /\ (c = 240 => b[i + 1] >= 144) /\ (c = 244 => b[i + 1] <= 143) THEN 4
    ELSE 0

Utf8CodePoint(b, i, w) ==
    IF w = 1 THEN b[i]
    ELSE IF w = 2 THEN (b[i] - 192) * 64 + (b[i + 1] - 128)
    ELSE IF w = 3 THEN (b[i] - 224) * 4096 + (b[i + 1] - 128) * 64 + (b[i + 2] - 128)
    ELSE (b[i] - 240) * 262144 + (b[i + 1] - 128) * 4096 + (b[i + 2] - 128) * 64
         + (b[i + 3] - 128)

\* b.decode('utf-8') from index i on: [ok, s]
RECURSIVE Utf8DecodeFrom(_, _)
Utf8DecodeFrom(b, i) ==
    IF i > Len(b) THEN [ok |-> TRUE, s |-> << >>]
    ELSE LET w == Utf8Width(b, i) IN
         IF w = 0 THEN [ok |-> FALSE, s |-> << >>]
         ELSE LET rest == Utf8DecodeFrom(b, i + w) IN
              [ok |-> rest.ok, s |-> << Utf8CodePoint(b, i, w) >> \o rest.s]

utf8_decode(b) == Utf8DecodeFrom(b, 1)

\* ------------------------------------------------------------------------
\* GGUFStructure
\* ------------------------------------------------------------------------
MAGIC == << 71, 71, 85, 70 >>

VERSION == 3

TENSOR_TYPES ==
    << "F32", "F16", "Q4_0", "Q4_1", "Q5_0", "Q5_1", "Q8_0", "Q8_1", "Q2_K", "Q3_K",
       "Q4_K", "Q5_K", "Q6_K", "Q8_K", "IQ2_XXS", "IQ2_XS" >>

\* the codes TENSOR_TYPES has an entry for
TensorTypeIds == 0..(Len(TENSOR_TYPES) - 1)

\* TensorTypeName with a lookup that misses the last entries of the table
TensorTypeName_ShortTable(tensor_type) ==
    IF tensor_type \in 0..(Len(TENSOR_TYPES) - 3) THEN << TENSOR_TYPES[tensor_type + 1] >>
    ELSE << "UNKNOWN", tensor_type >>

\* TENSOR_TYPES.get(tensor_type, f"UNKNOWN({tensor_type})")
TensorTypeName(tensor_type) ==
    IF tensor_type \in TensorTypeIds THEN << TENSOR_TYPES[tensor_type + 1] >>
    ELSE << "UNKNOWN", tensor_type >>

\* the tags VALUE_TYPES has an entry for
VALUE_TYPES == 0..9

\* ------------------------------------------------------------------------
\* The reader.  A reader state r is [err, pos, short, badtag, val]:
\*   err    the exception raised so far (NoErr: none)
\*   pos    the file position
\*   short  some f.read returned fewer bytes than it was asked for
\*   badtag a value-type tag outside VALUE_TYPES has been decoded
\*   val    the value of the last read
\* ------------------------------------------------------------------------
NoErr == "none"

E_Magic == "ValueError: Not a valid GGUF file"

E_UnknownType == "ValueError: Unknown metadata value type"

E_Struct == "struct.error"

E_Unicode == "UnicodeDecodeError"

E_Memory == "MemoryError"

E_NotFound == "FileNotFoundError"

\* implausible: an array length larger than the bytes left in the file has
\* been read; iterated: an element of such an array has been decoded since
Cursor0 ==
    [err |-> NoErr, pos |-> 0, short |-> FALSE, badtag |-> FALSE,
     implausible |-> FALSE, iterated |-> FALSE, val |-> 0]

\* the reader state after f.read(w) returned b at state r, for struct.unpack,
\* which needs a buffer of exactly w bytes
Unpacked(r, b, w) ==
    IF Len(b) # w
    THEN [r EXCEPT !.err = E_Struct, !.pos = r.pos + Len(b), !.short = TRUE]
    ELSE [r EXCEPT !.pos = r.pos + w, !.val = b]

\* f.read(w) handed to struct.unpack
ReadBytes(bs, r, w) == Unpacked(r, f_read(bs, r.pos, w), w)

AsUInt(x) == IF x.err # NoErr THEN x ELSE [x EXCEPT !.val = UIntLE(x.val)]

AsSInt(x) == IF x.err # NoErr THEN x ELSE [x EXCEPT !.val = SIntLE(x.val)]

\* struct.unpack('<B' | '<H' | '<I' | '<Q', f.read(w))[0]
ReadUInt(bs, r, w) == AsUInt(ReadBytes(bs, r, w))

\* struct.unpack('<b' | '<h' | '<i', f.read(w))[0]
ReadSInt(bs, r, w) == AsSInt(ReadBytes(bs, r, w))

\* b.decode('utf-8') at reader state m, d being the outcome of the decoding
Decoded(m, d) == IF d.ok THEN [m EXCEPT !.val = d.s] ELSE [m EXCEPT !.err = E_Unicode]

\* f.read(n).decode('utf-8') where l holds the length n and f.read returned b
StringPayload(l, b) ==
    Decoded([l EXCEPT !.pos = l.pos + Len(b), !.short = l.short \/ Len(b) < l.val],
            utf8_decode(b))

\* f.read(n).decode('utf-8') after the length n has been read into l
\* mem: whether a buffer of Huge bytes can be allocated on this machine
StringAfterLen(bs, l, mem) ==
    IF l.err # NoErr THEN l
    ELSE IF l.val = Huge /\ ~mem THEN [l EXCEPT !.err = E_Memory]
    ELSE StringPayload(l, f_read(bs, l.pos, l.val))

\* n = struct.unpack('<Q', f.read(8))[0]; f.read(n).decode('utf-8')
ReadString(bs, r, mem) == StringAfterLen(bs, ReadUInt(bs, r, 8), mem)

AsInt(x) == IF x.err # NoErr THEN x ELSE [x EXCEPT !.val = PyInt(x.val)]

AsFloat(x) == IF x.err # NoErr THEN x ELSE [x EXCEPT !.val = PyFloat(x.val)]

AsBool(x) == IF x.err # NoErr THEN x ELSE [x EXCEPT !.val = PyBool(x.val # 0)]

AsStr(x) == IF x.err # NoErr THEN x ELSE [x EXCEPT !.val = PyStr(x.val)]

\* the reader state r with the tag it has just decoded checked against 0..9
TagSeen(r, tag) == [r EXCEPT !.badtag = r.badtag \/ tag \notin VALUE_TYPES]

RECURSIVE read_metadata_value(_, _, _, _)
RECURSIVE read_array_items(_, _, _, _, _, _)

\* the list comprehension once an element has been read into e
ArrayAfterItem(bs, e, array_type, n, acc, mem) ==
    IF e.err # NoErr THEN e
    ELSE read_array_items(bs, [e EXCEPT !.iterated = e.implausible],
                          array_type, n - 1, Append(acc, e.val), mem)

\* [self._read_metadata_value(f, array_type) for _ in range(n)], after acc
read_array_items(bs, r, array_type, n, acc, mem) ==
    IF n = 0 THEN [r EXCEPT !.val = PyList(acc)]
    ELSE ArrayAfterItem(bs, read_metadata_value(bs, r, array_type, mem),
                        array_type, n, acc, mem)

\* the reader state once an array of n elements has been announced at r
LengthSeen(bs, r, n) ==
    [r EXCEPT !.implausible = r.implausible \/ n > Len(bs) - r.pos]

\* the ARRAY branch once array_len has been read: the list comprehension
\* starts whatever the length is
ArrayAfterLen(bs, array_type, array_len, mem) ==
    IF array_len.err # NoErr THEN array_len
    ELSE read_array_items(bs,
                          LengthSeen(bs, TagSeen(array_len, array_type),
                                     array_len.val),
                          array_type, array_len.val, << >>, mem)

\* the ARRAY branch once array_type has been read
ArrayAfterType(bs, array_type, mem) ==
    IF array_type.err # NoErr THEN array_type
    ELSE ArrayAfterLen(bs, array_type.val, ReadUInt(bs, array_type, 8), mem)

\* _read_metadata_value(f, value_type)
read_metadata_value(bs, r, value_type, mem) ==
    IF value_type = 0 THEN AsInt(ReadUInt(bs, r, 1))
    ELSE IF value_type = 1 THEN AsInt(ReadSInt(bs, r, 1))
    ELSE IF value_type = 2 THEN AsInt(ReadUInt(bs, r, 2))
    ELSE IF value_type = 3 THEN AsInt(ReadSInt(bs, r, 2))
    ELSE IF value_type = 4 THEN AsInt(ReadUInt(bs, r, 4))
    ELSE IF value_type = 5 THEN AsInt(ReadSInt(bs, r, 4))
    ELSE IF value_type = 6 THEN AsFloat(ReadBytes(bs, r, 4))
    ELSE IF value_type = 7 THEN AsBool(ReadUInt(bs, r, 1))
    ELSE IF value_type = 8 THEN AsStr(ReadString(bs, r, mem))
    ELSE IF value_type = 9 THEN ArrayAfterType(bs, ReadUInt(bs, r, 4), mem)
    ELSE [r EXCEPT !.err = E_UnknownType]

RECURSIVE read_metadata_loop(_, _, _, _, _)

\* one pass of the loop of _read_metadata once the value has been read
EntryAfterValue(bs, key, value, count, metadata, mem) ==
    IF value.err # NoErr THEN value
    ELSE read_metadata_loop(bs, value, count - 1, DictSet(metadata, key, value.val), mem)

\* one pass of the loop once value_type has been read
EntryAfterType(bs, key, value_type, count, metadata, mem) ==
    IF value_type.err # NoErr THEN value_type
    ELSE EntryAfterValue(
             bs, key,
             read_metadata_value(bs, TagSeen(value_type, value_type.val),
                                 value_type.val, mem),
             count, metadata, mem)

\* one pass of the loop once the key has been read
EntryAfterKey(bs, key, count, metadata, mem) ==
    IF key.err # NoErr THEN key
    ELSE EntryAfterType(bs, key.val, ReadUInt(bs, key, 4), count, metadata, mem)

\* the loop of _read_metadata, with count entries still to read
read_metadata_loop(bs, r, count, metadata, mem) ==
    IF count = 0 THEN [r EXCEPT !.val = metadata]
    ELSE EntryAfterKey(bs, ReadString(bs, r, mem), count, metadata, mem)

\* _read_metadata(f, count)
read_metadata(bs, r, count, mem) == read_metadata_loop(bs, r, count, << >>, mem)

RECURSIVE read_dimensions(_, _, _, _)

\* the comprehension of the dimensions once a dimension has been read into d
DimensionsAfterItem(bs, d, n, acc) ==
    IF d.err # NoErr THEN d
    ELSE read_dimensions(bs, d, n - 1, Append(acc, d.val))

\* [struct.unpack('<Q', f.read(8))[0] for _ in range(n)], after acc
read_dimensions(bs, r, n, acc) ==
    IF n = 0 THEN [r EXCEPT !.val = acc]
    ELSE DimensionsAfterItem(bs, ReadUInt(bs, r, 8), n, acc)

\* the dict appended to tensors
TensorInfo(name, dimensions, tensor_type, offset) ==
    [name       |-> name,
     dimensions |-> dimensions,
     type       |-> TensorTypeName(tensor_type),
     type_id    |-> tensor_type,
     offset     |-> offset]

RECURSIVE read_tensor_info_loop(_, _, _, _, _)

\* one pass of the loop of _read_tensor_info once the offset has been read
TensorAfterOffset(bs, name, dimensions, tensor_type, offset, count, tensors, mem) ==
    IF offset.err # NoErr THEN offset
    ELSE read_tensor_info_loop(
             bs, offset, count - 1,
             Append(tensors, TensorInfo(name, dimensions, tensor_type, offset.val)), mem)

\* one pass of the loop once tensor_type has been read
TensorAfterType(bs, name, dimensions, tensor_type, count, tensors, mem) ==
    IF tensor_type.err # NoErr THEN tensor_type
    ELSE TensorAfterOffset(bs, name, dimensions, tensor_type.val,
                           ReadUInt(bs, tensor_type, 8), count, tensors, mem)

\* one pass of the loop once the dimensions have been read
TensorAfterDimensions(bs, name, dimensions, count, tensors, mem) ==
    IF dimensions.err # NoErr THEN dimensions
    ELSE TensorAfterType(bs, name, dimensions.val, ReadUInt(bs, dimensions, 4),
                         count, tensors, mem)

\* one pass of the loop once n_dims has been read
TensorAfterNDims(bs, name, n_dims, count, tensors, mem) ==
    IF n_dims.err # NoErr THEN n_dims
    ELSE TensorAfterDimensions(bs, name, read_dimensions(bs, n_dims, n_dims.val, << >>),
                               count, tensors, mem)

\* one pass of the loop once the name has been read
TensorAfterName(bs, name, count, tensors, mem) ==
    IF name.err # NoErr THEN name
    ELSE TensorAfterNDims(bs, name.val, ReadUInt(bs, name, 4), count, tensors, mem)

\* the loop of _read_tensor_info, with count descriptors still to read
read_tensor_info_loop(bs, r, count, tensors, mem) ==
    IF count = 0 THEN [r EXCEPT !.val = tensors]
    ELSE TensorAfterName(bs, ReadString(bs, r, mem), count, tensors, mem)

\* _read_tensor_info(f, count)
read_tensor_info(bs, r, count, mem) == read_tensor_info_loop(bs, r, count, << >>, mem)

\* _detect_tokenizer_data(metadata)
detect_tokenizer_keys ==
    << S_tokenizer_ggml_model, S_tokenizer_ggml_tokens, S_tokenizer_ggml_scores,
       S_tokenizer_ggml_token_type >>

\* all(...) in place of any(...)
detect_tokenizer_data_All(metadata) ==
    \A i \in 1..Len(detect_tokenizer_keys) : DictHas(metadata, detect_tokenizer_keys[i])

detect_tokenizer_data(metadata) ==
    \E i \in 1..Len(detect_tokenizer_keys) : DictHas(metadata, detect_tokenizer_keys[i])

\* _detect_telemetry(metadata)
detect_telemetry_keys ==
    << S_general_source_url, S_general_source_huggingface_repository, S_training_dataset,
       S_training_data_url >>

detect_telemetry(metadata) ==
    \E i \in 1..Len(detect_telemetry_keys) : DictHas(metadata, detect_telemetry_keys[i])

\* the analysis dict of analyze_gguf
Analysis(bs, version, tensor_count, metadata_kv_count, metadata, tensors) ==
    [file_size          |-> Len(bs),
     gguf_version       |-> version,
     tensor_count       |-> tensor_count,
     metadata_count     |-> metadata_kv_count,
     metadata           |-> metadata,
     tensors            |-> tensors,
     has_tokenizer      |-> detect_tokenizer_data(metadata),
     has_telemetry      |-> detect_telemetry(metadata),
     model_architecture |-> DictGetDefault(metadata, S_general_architecture, PyStr(S_unknown)),
     model_name         |-> DictGetDefault(metadata, S_general_name, PyStr(S_unknown))]

\* analyze_gguf once the tensors have been read: the analysis is returned
AnalyzeAfterTensors(bs, version, tensor_count, metadata_kv_count, metadata, tensors) ==
    IF tensors.err # NoErr THEN tensors
    ELSE [tensors EXCEPT !.val = Analysis(bs, version, tensor_count, metadata_kv_count,
                                          metadata, tensors.val)]

\* analyze_gguf once the metadata has been read
AnalyzeAfterMetadata(bs, version, tensor_count, metadata_kv_count, metadata, mem) ==
    IF metadata.err # NoErr THEN metadata
    ELSE AnalyzeAfterTensors(bs, version, tensor_count, metadata_kv_count, metadata.val,
                             read_tensor_info(bs, metadata, tensor_count, mem))

\* analyze_gguf once metadata_kv_count has been read
AnalyzeAfterKvCount(bs, version, tensor_count, metadata_kv_count, mem) ==
    IF metadata_kv_count.err # NoErr THEN metadata_kv_count
    ELSE AnalyzeAfterMetadata(
             bs, version, tensor_count, metadata_kv_count.val,
             read_metadata(bs, metadata_kv_count, metadata_kv_count.val, mem), mem)

\* analyze_gguf once tensor_count has been read
AnalyzeAfterTensorCount(bs, version, tensor_count, mem) ==
    IF tensor_count.err # NoErr THEN tensor_count
    ELSE AnalyzeAfterKvCount(bs, version, tensor_count.val,
                             ReadUInt(bs, tensor_count, 8), mem)

\* analyze_gguf once the version has been read: it is not compared
AnalyzeAfterVersion(bs, version, mem) ==
    IF version.err # NoErr THEN version
    ELSE AnalyzeAfterTensorCount(bs, version.val, ReadUInt(bs, version, 8), mem)

\* what analyze_gguf does once the magic has been accepted
AnalyzeBody(bs, r, mem) == AnalyzeAfterVersion(bs, ReadUInt(bs, r, 4), mem)

\* the reader state after f.read(4) returned magic
AfterMagic(magic) == [Cursor0 EXCEPT !.pos = Len(magic), !.short = Len(magic) < 4]

\* analyze_gguf once the magic has been read
AnalyzeAfterMagic(bs, magic, mem) ==
    IF magic # MAGIC THEN [AfterMagic(magic) EXCEPT !.err = E_Magic]
    ELSE AnalyzeBody(bs, AfterMagic(magic), mem)

\* analyze_gguf without the comparison of the magic
analyze_gguf_NoMagicCheck(bs, mem) == AnalyzeBody(bs, AfterMagic(f_read(bs, 0, 4)), mem)

\* analyze_gguf on a file with content bs: the final reader state; when err is
\* NoErr, val is the analysis returned
analyze_gguf(bs, mem) == AnalyzeAfterMagic(bs, f_read(bs, 0, 4), mem)

\* ------------------------------------------------------------------------
\* json.dump / json.load.  A JSON text is modelled by the value it denotes:
\* [j, v] with j the kind of JSON token.
\* ------------------------------------------------------------------------

\* float32 bit patterns (little-endian bytes) that unpack to nan
IsNaN(b) == b[4] % 128 = 127 /\ b[3] >= 128 /\ (b[3] > 128 \/ b[2] # 0 \/ b[1] # 0)

\* the float that json.load makes of the token NaN
CanonicalNaN == << 0, 0, 192, 127 >>

RECURSIVE json_dump(_)
json_dump(x) ==
    IF x.t = "int" THEN [j |-> "integer", v |-> x.v]
    ELSE IF x.t = "float" THEN
        IF IsNaN(x.v) THEN [j |-> "NaN", v |-> 0] ELSE [j |-> "real", v |-> x.v]
    ELSE IF x.t = "bool" THEN [j |-> IF x.v THEN "true" ELSE "false", v |-> 0]
    ELSE IF x.t = "str" THEN [j |-> "string", v |-> x.v]
    ELSE IF x.t = "dict" THEN
        [j |-> "object",
         v |-> [i \in 1..Len(x.v) |-> [k |-> x.v[i].k, v |-> json_dump(x.v[i].v)]]]
    ELSE [j |-> "array", v |-> [i \in 1..Len(x.v) |-> json_dump(x.v[i])]]

RECURSIVE json_load(_)
json_load(x) ==
    IF x.j = "integer" THEN PyInt(x.v)
    ELSE IF x.j = "NaN" THEN PyFloat(CanonicalNaN)
    ELSE IF x.j = "real" THEN PyFloat(x.v)
    ELSE IF x.j = "true" THEN PyBool(TRUE)
    ELSE IF x.j = "false" THEN PyBool(FALSE)
    ELSE IF x.j = "string" THEN PyStr(x.v)
    ELSE IF x.j = "object" THEN
        PyDict([i \in 1..Len(x.v) |-> [k |-> x.v[i].k, v |-> json_load(x.v[i].v)]])
    ELSE PyList([i \in 1..Len(x.v) |-> json_load(x.v[i])])

\* json.dump(metadata, f) of a dict: the object's members in the dict's order
json_dump_dict(d) == [i \in 1..Len(d) |-> [k |-> d[i].k, v |-> json_dump(d[i].v)]]

\* json.load(f) of an object
json_load_dict(o) == [i \in 1..Len(o) |-> [k |-> o[i].k, v |-> json_load(o[i].v)]]

\* a file on disk
NoFile == [exists |-> FALSE, data |-> << >>]

File(data) == [exists |-> TRUE, data |-> data]

\* ------------------------------------------------------------------------
\* Input files, laid out as the reader expects them
\* ------------------------------------------------------------------------
EncStr(s) == PackLE(Len(s), 8) \o s

EncHeader(version, tensor_count, metadata_kv_count) ==
    MAGIC \o PackLE(version, 4) \o PackLE(tensor_count, 8) \o PackLE(metadata_kv_count, 8)

EncEntry(key, value_type, payload) == EncStr(key) \o PackLE(value_type, 4) \o payload

EncArray(array_type, array_len, payload) ==
    PackLE(array_type, 4) \o PackLE(array_len, 8) \o payload

EncTensor(name, dimensions, tensor_type, offset) ==
    EncStr(name) \o PackLE(Len(dimensions), 4)
    \o (IF Len(dimensions) = 0 THEN << >>
        ELSE IF Len(dimensions) = 1 THEN PackLE(dimensions[1], 8)
        ELSE PackLE(dimensions[1], 8) \o PackLE(dimensions[2], 8))
    \o PackLE(tensor_type, 4) \o PackLE(offset, 8)

\* zero bytes up to the next multiple of 32, then the tensor data
WithData(head, data) ==
    head \o [i \in 1..((32 - (Len(head) % 32)) % 32) |-> 0] \o data

\* the metadata of the scenario file, with the given value-type tag for the
\* architecture entry and element-type tag and length for the token array
ScenarioFile(version, magic_ok, arch_tag, array_type, tensor_type) ==
    WithData(
        (IF magic_ok THEN << >> ELSE << 103 >>)
        \o EncHeader(version, 1, 2)
        \o EncEntry(S_general_architecture, arch_tag, EncStr(S_llama))
        \o EncEntry(S_tokenizer_ggml_tokens, 9,
                    EncArray(array_type, 3, EncStr(S_a) \o EncStr(S_b) \o EncStr(S_c)))
        \o EncTensor(S_tok_embd, << 3, 4 >>, tensor_type, 0),
        [i \in 1..48 |-> i])

\* header (3, 1, 2), {"general.architecture": "llama",
\* "tokenizer.ggml.tokens": ["a","b","c"]}, tensor tok_embd [3,4] F32 at 0
FileScenario == ScenarioFile(3, TRUE, 8, 8, 0)

\* no tensors; the file ends with a string value, or with an array whose
\* element-type tag and length are given
TelemetryFile(license_tag, array_type, array_len) ==
    EncHeader(3, 0, IF array_len < 0 THEN 3 ELSE 4)
    \o EncEntry(S_general_name, 8, EncStr(S_a))
    \o EncEntry(S_general_license, license_tag, EncStr(S_b))
    \o (IF array_len < 0 THEN << >>
        ELSE EncEntry(S_b, 9,
                      EncArray(array_type, array_len, [i \in 1..array_len |-> 7])))
    \o EncEntry(S_training_dataset, 8, EncStr(S_x_y))

FileTelemetry == TelemetryFile(8, 0, -1)

\* one entry of every scalar kind, an empty array, a nan under last_key, and
\* two tensors, the second of the given type code
ScalarsFile(last_key, tensor_type) ==
    WithData(
        EncHeader(3, 2, 10)
        \o EncEntry(S_a, 0, << 200 >>)
        \o EncEntry(S_b, 1, << 200 >>)
        \o EncEntry(S_c, 2, << 1, 2 >>)
        \o EncEntry(S_x_y, 3, << 254, 255 >>)
        \o EncEntry(S_llama_vocab_size, 4, PackLE(3, 4))
        \o EncEntry(S_general_vocab_size, 5, << 255, 255, 255, 255 >>)
        \o EncEntry(S_llama, 6, << 0, 0, 128, 63 >>)
        \o EncEntry(S_qwen, 7, << 1 >>)
        \o EncEntry(S_gpt2, 9, EncArray(4, 0, << >>))
        \o EncEntry(last_key, 6, << 1, 0, 128, 127 >>)
        \o EncTensor(S_a, << 2 >>, 1, 0)
        \o EncTensor(S_b, << >>, tensor_type, 4),
        << 9, 8, 7, 6, 5, 4, 3, 2 >>)

FileScalars == ScalarsFile(S_general_name, 15)

\* the same with the key "a" given twice
FileRepeatedKey == ScalarsFile(S_a, 15)

\* a key whose declared length is 2^40
FileHugeKey ==
    EncHeader(3, 0, 1) \o << 0, 0, 0, 0, 0, 1, 0, 0 >> \o S_a \o PackLE(0, 4) \o << 1 >>

\* the longest array of the corrupted files
MaxArrayLen == 2

\* one array entry that announces more elements than the payload holds
OverlongArrayFile(array_type, declared, payload) ==
    EncHeader(3, 0, 1)
    \o EncEntry(S_b, 9, PackLE(array_type, 4) \o declared \o payload)

\* arrays of uint8 and of strings announcing more elements than there are
\* bytes left, the last one 2^40 of them
OverlongArrayFiles ==
    { OverlongArrayFile(0, PackLE(MaxArrayLen + n, 8), [i \in 1..MaxArrayLen |-> 7]) :
        n \in 1..2 }
    \cup { OverlongArrayFile(8, PackLE(10, 8), EncStr(S_a)),
           OverlongArrayFile(0, << 0, 0, 0, 0, 0, 1, 0, 0 >>, << 7, 7 >>) }

\* no metadata and two F32 tensors of one element each, at the given offsets
\* of an 8-byte data region
OffsetsFile(first, second) ==
    WithData(
        EncHeader(3, 2, 0)
        \o EncTensor(S_a, << 1 >>, 0, first)
        \o EncTensor(S_b, << 1 >>, 0, second),
        << 9, 8, 7, 6, 5, 4, 3, 2 >>)

\* descriptor tables with decreasing offsets, with overlapping spans and with
\* a span that ends after the data region
BadDescriptorFiles == { OffsetsFile(4, 0), OffsetsFile(0, 2), OffsetsFile(0, 8) }

\* ".vocab_size"
DotVocabSize == SubSeq(S_llama_vocab_size, Len(S_llama) + 1, Len(S_llama_vocab_size))

\* {"general.architecture": "gpt2", "gpt2.vocab_size": 3}, no tensors
FileOtherArchitecture ==
    EncHeader(3, 0, 2)
    \o EncEntry(S_general_architecture, 8, EncStr(S_gpt2))
    \o EncEntry(S_gpt2 \o DotVocabSize, 4, PackLE(3, 4))

\* the well-formed files
ValidFiles == { FileScenario, FileTelemetry, FileScalars }

Prefixes(bs) == { SubSeq(bs, 1, n) : n \in 0..(Len(bs) - 1) }

IsStrictPrefix(p, bs) == Len(p) < Len(bs) /\ p = SubSeq(bs, 1, Len(p))

\* out-of-range tags used to corrupt a file
BadTags == { 10, 99 }

\* unsupported versions
BadVersions == { 1, 2, 4 }

\* tensor type codes TENSOR_TYPES has no entry for
BadTensorTypes == { 16, 99 }

TruncatedFiles == UNION { Prefixes(bs) : bs \in ValidFiles }

CorruptTagFiles ==
    { ScenarioFile(3, TRUE, t, 8, 0) : t \in BadTags }
    \cup { ScenarioFile(3, TRUE, 8, t, 0) : t \in BadTags }
    \cup { TelemetryFile(t, 0, -1) : t \in BadTags }
    \cup { TelemetryFile(8, t, n) : t \in BadTags \cup { 0 }, n \in 0..MaxArrayLen }

BadVersionFiles == { ScenarioFile(v, TRUE, 8, 8, 0) : v \in BadVersions }

BadMagicFiles == { ScenarioFile(3, FALSE, 8, 8, 0), << >>, << 71, 71 >>, << 71, 71, 85, 102, 3 >> }

BadTensorTypeFiles ==
    { ScenarioFile(3, TRUE, 8, 8, t) : t \in BadTensorTypes }
    \cup { ScalarsFile(S_general_name, t) : t \in BadTensorTypes }

\* the inputs of the reader
ReaderFiles ==
    ValidFiles \cup TruncatedFiles \cup CorruptTagFiles \cup BadVersionFiles
    \cup BadMagicFiles \cup BadTensorTypeFiles \cup OverlongArrayFiles
    \cup BadDescriptorFiles
    \cup { FileHugeKey, FileRepeatedKey }

\* the source files of the mount / edit / save workflow
WorkflowFiles ==
    ValidFiles
    \cup { ScenarioFile(3, FALSE, 8, 8, 0),
           SubSeq(FileTelemetry, 1, Len(FileTelemetry) - 2),
           OffsetsFile(0, 2), FileOtherArchitecture }

\* ------------------------------------------------------------------------
\* Edit operations on a mount directory.  A directory is
\* [metadata, hybrid, tokenizer]: the files metadata/metadata.json and
\* metadata/hybrid_metadata.json and the directory tokenizer/.
\* ------------------------------------------------------------------------
E_TypeError == "TypeError"

E_NoMount == "ValueError: No virtual mount found"

E_SameFile == "shutil.SameFileError"

\* the tokenizer directory of a mount: the JSON files in it by stem
NoTokenizerDir == [exists |-> FALSE, files |-> << >>]

NoDir == [metadata |-> NoFile, hybrid |-> NoFile, tokenizer |-> NoTokenizerDir]

\* open(tokenizer_dir / (name + ".json"), 'w') and json.dump of doc into it
WriteJson(tokenizer_dir, name, doc) ==
    [tokenizer_dir EXCEPT !.files =
        [n \in DOMAIN tokenizer_dir.files \cup { name } |->
            IF n = name THEN doc ELSE tokenizer_dir.files[n]]]

\* tokenizer_data of _extract_tokenizer_data
TokenizerData(metadata) ==
    (IF DictHas(metadata, S_tokenizer_ggml_model)
     THEN << [k |-> S_model, v |-> DictGet(metadata, S_tokenizer_ggml_model)] >>
     ELSE << >>)
    \o (IF DictHas(metadata, S_tokenizer_ggml_tokens)
        THEN << [k |-> S_tokens, v |-> DictGet(metadata, S_tokenizer_ggml_tokens)] >>
        ELSE << >>)
    \o (IF DictHas(metadata, S_tokenizer_ggml_scores)
        THEN << [k |-> S_scores, v |-> DictGet(metadata, S_tokenizer_ggml_scores)] >>
        ELSE << >>)

\* (extract_path / 'tokenizer').mkdir(exist_ok=True) and
\* _extract_tokenizer_data(analysis, tokenizer_dir), over what is there
extract_tokenizer_data(tokenizer_dir, analysis) ==
    IF ~analysis.has_tokenizer THEN [tokenizer_dir EXCEPT !.exists = TRUE]
    ELSE WriteJson([tokenizer_dir EXCEPT !.exists = TRUE], S_tokenizer,
                   json_dump_dict(TokenizerData(analysis.metadata)))

\* problematic_tokens of fix_broken_tokenizer
problematic_tokens == << S_end, S_end_talking, S_talking_end >>

\* f"{tokenizer_file.stem}_fixed.json"
Fixed(stem) == stem \o S_fixed

\* sub in s, for strings
Contains(s, sub) ==
    \E i \in 0..(Len(s) - Len(sub)) : SubSeq(s, i + 1, i + Len(sub)) = sub

\* token in tokenizer_data['vocab']: [err, val]
TokenIn(vocab, token) ==
    IF vocab.t = "dict" THEN [err |-> NoErr, val |-> DictHas(vocab.v, token)]
    ELSE IF vocab.t = "list"
    THEN [err |-> NoErr, val |-> \E i \in 1..Len(vocab.v) : vocab.v[i] = PyStr(token)]
    ELSE IF vocab.t = "str" THEN [err |-> NoErr, val |-> Contains(vocab.v, token)]
    ELSE [err |-> E_TypeError, val |-> FALSE]

\* for token in problematic_tokens[i..]: if token in vocab: del vocab[token]
\* [err, val]; only a dict supports the deletion
RECURSIVE RemoveTokens(_, _)
RemoveTokens(vocab, i) ==
    IF i > Len(problematic_tokens) THEN [err |-> NoErr, val |-> vocab]
    ELSE IF TokenIn(vocab, problematic_tokens[i]).err # NoErr
    THEN [err |-> E_TypeError, val |-> vocab]
    ELSE IF ~TokenIn(vocab, problematic_tokens[i]).val THEN RemoveTokens(vocab, i + 1)
    ELSE IF vocab.t # "dict" THEN [err |-> E_TypeError, val |-> vocab]
    ELSE RemoveTokens(PyDict(DictDel(vocab.v, problematic_tokens[i])), i + 1)

\* the try block up to the save, once the vocab has been cleaned: [err, val]
FixedAfterRemoval(tokenizer_data, vocab) ==
    IF vocab.err # NoErr THEN [err |-> vocab.err, val |-> tokenizer_data]
    ELSE [err |-> NoErr, val |-> DictSet(tokenizer_data, S_vocab, vocab.val)]

\* tokenizer_data after "if 'vocab' in tokenizer_data: ...": [err, val]
FixedData(tokenizer_data) ==
    IF ~DictHas(tokenizer_data, S_vocab) THEN [err |-> NoErr, val |-> tokenizer_data]
    ELSE FixedAfterRemoval(tokenizer_data, RemoveTokens(DictGet(tokenizer_data, S_vocab), 1))

\* one pass of the loop over tokenizer_files once the data has been fixed:
\* an exception is logged and the file is skipped
FixedSaved(tokenizer_dir, name, fixed) ==
    IF fixed.err # NoErr THEN tokenizer_dir
    ELSE WriteJson(tokenizer_dir, Fixed(name), json_dump_dict(fixed.val))

\* for tokenizer_file in tokenizer_files[i..], in the order glob gave
RECURSIVE FixFiles(_, _, _)
FixFiles(tokenizer_dir, tokenizer_files, i) ==
    IF i > Len(tokenizer_files) THEN tokenizer_dir
    ELSE FixFiles(FixedSaved(tokenizer_dir, tokenizer_files[i],
                             FixedData(json_load_dict(
                                 tokenizer_dir.files[tokenizer_files[i]]))),
                  tokenizer_files, i + 1)

\* no clean_tokenizer_source
NoClean == [given |-> FALSE, file |-> NoFile]

\* clean_tokenizer_source naming the file
Clean(file) == [given |-> TRUE, file |-> file]

\* fix_broken_tokenizer(mount_point, clean_tokenizer_source) on the directory
\* dir, tokenizer_files being the result of glob('*.json'): [err, dir]
fix_broken_tokenizer(dir, clean, tokenizer_files) ==
    IF ~dir.tokenizer.exists THEN [err |-> NoErr, dir |-> dir]
    ELSE IF clean.given /\ ~clean.file.exists THEN [err |-> E_NotFound, dir |-> dir]
    ELSE [err |-> NoErr,
          dir |-> [dir EXCEPT !.tokenizer =
                      FixFiles(IF clean.given
                               THEN WriteJson(dir.tokenizer, Fixed(S_tokenizer),
                                              clean.file.data)
                               ELSE dir.tokenizer,
                               tokenizer_files, 1)]]

\* telemetry_keys without training.dataset
strip_telemetry_keys_WithoutDataset ==
    << S_general_source_url, S_general_source_huggingface_repository,
       S_training_data_url, S_general_license, S_general_base_model_source >>

\* telemetry_keys of strip_telemetry
strip_telemetry_keys ==
    << S_general_source_url, S_general_source_huggingface_repository, S_training_dataset,
       S_training_data_url, S_general_license, S_general_base_model_source >>

\* for key in keys[i..]: if key in metadata: del metadata[key]
RECURSIVE RemoveKeys(_, _, _)
RemoveKeys(metadata, keys, i) ==
    IF i > Len(keys) THEN metadata
    ELSE RemoveKeys(IF DictHas(metadata, keys[i]) THEN DictDel(metadata, keys[i])
                    ELSE metadata,
                    keys, i + 1)

\* removed_count of strip_telemetry(mount_point) on the directory dir
removed_count(dir) ==
    IF ~dir.metadata.exists THEN 0
    ELSE Len(json_load_dict(dir.metadata.data))
         - Len(RemoveKeys(json_load_dict(dir.metadata.data), strip_telemetry_keys, 1))

\* strip_telemetry with a loop that stops after the first key it deletes
strip_telemetry_FirstKeyOnly(dir) ==
    IF ~dir.metadata.exists THEN dir
    ELSE LET metadata == json_load_dict(dir.metadata.data)
             present  == { i \in 1..Len(strip_telemetry_keys) :
                             DictHas(metadata, strip_telemetry_keys[i]) }
             first    == CHOOSE i \in present : \A j \in present : i <= j
         IN  [dir EXCEPT !.metadata =
                  File(json_dump_dict(IF present = { } THEN metadata
                                      ELSE DictDel(metadata, strip_telemetry_keys[first])))]

\* strip_telemetry(mount_point) on the directory dir
strip_telemetry(dir) ==
    IF ~dir.metadata.exists THEN dir
    ELSE [dir EXCEPT !.metadata =
              File(json_dump_dict(RemoveKeys(json_load_dict(dir.metadata.data),
                                             strip_telemetry_keys, 1)))]

\* tokenizer_keys with general.architecture among them
merge_tokenizer_keys_WithArchitecture ==
    << S_tokenizer_ggml_model, S_tokenizer_ggml_tokens, S_tokenizer_ggml_scores,
       S_tokenizer_ggml_token_type, S_tokenizer_ggml_merges, S_tokenizer_ggml_added_tokens,
       S_general_architecture >>

\* tokenizer_keys of merge_tokenizer_with_metadata
merge_tokenizer_keys ==
    << S_tokenizer_ggml_model, S_tokenizer_ggml_tokens, S_tokenizer_ggml_scores,
       S_tokenizer_ggml_token_type, S_tokenizer_ggml_merges, S_tokenizer_ggml_added_tokens >>

vocab_size_keys == << S_general_vocab_size, S_llama_vocab_size, S_qwen_vocab_size >>

\* for key in keys[i..]: if key in source: hybrid[key] = source[key]
RECURSIVE Transplant(_, _, _, _)
Transplant(hybrid, source, keys, i) ==
    IF i > Len(keys) THEN hybrid
    ELSE Transplant(IF DictHas(source, keys[i])
                    THEN DictSet(hybrid, keys[i], DictGet(source, keys[i]))
                    ELSE hybrid,
                    source, keys, i + 1)

\* key.startswith(prefix)
StartsWith(key, prefix) ==
    Len(prefix) <= Len(key) /\ SubSeq(key, 1, Len(prefix)) = prefix

\* the loop over vocab_size_keys: [err, val]
RECURSIVE UpdateVocabSize(_, _, _)
UpdateVocabSize(hybrid, new_vocab_size, i) ==
    IF i > Len(vocab_size_keys) THEN [err |-> NoErr, val |-> hybrid]
    ELSE LET key  == vocab_size_keys[i]
             arch == DictGetDefault(hybrid, S_general_architecture, PyStr(S_llama))
         IN  IF DictHas(hybrid, key)
             THEN UpdateVocabSize(DictSet(hybrid, key, PyInt(new_vocab_size)),
                                  new_vocab_size, i + 1)
             ELSE IF arch.t # "str" THEN [err |-> E_TypeError, val |-> hybrid]
             ELSE IF StartsWith(key, arch.v)
             THEN UpdateVocabSize(DictSet(hybrid, key, PyInt(new_vocab_size)),
                                  new_vocab_size, i + 1)
             ELSE UpdateVocabSize(hybrid, new_vocab_size, i + 1)

\* the hybrid metadata built with hybrid_metadata.update(source_metadata)
RECURSIVE UpdateAll(_, _, _)
UpdateAll(hybrid, source, i) ==
    IF i > Len(source) THEN hybrid
    ELSE UpdateAll(DictSet(hybrid, source[i].k, source[i].v), source, i + 1)

HybridMetadata_SourceWins(current_metadata, source_metadata) ==
    [err |-> NoErr, val |-> UpdateAll(current_metadata, source_metadata, 1)]

\* the hybrid metadata with new_vocab_size = len(hybrid_metadata)
HybridMetadata_CountsKeys(current_metadata, source_metadata) ==
    LET hybrid == Transplant(current_metadata, source_metadata, merge_tokenizer_keys, 1) IN
    IF ~DictHas(source_metadata, S_tokenizer_ggml_tokens)
    THEN [err |-> NoErr, val |-> hybrid]
    ELSE UpdateVocabSize(hybrid, Len(hybrid), 1)

\* the hybrid metadata of merge_tokenizer_with_metadata: [err, val]
HybridMetadata(current_metadata, source_metadata) ==
    LET hybrid == Transplant(current_metadata, source_metadata, merge_tokenizer_keys, 1) IN
    IF ~DictHas(source_metadata, S_tokenizer_ggml_tokens)
    THEN [err |-> NoErr, val |-> hybrid]
    ELSE LET tokens == DictGet(source_metadata, S_tokenizer_ggml_tokens) IN
         IF tokens.t \notin { "list", "str" } THEN [err |-> E_TypeError, val |-> hybrid]
         ELSE UpdateVocabSize(hybrid, Len(tokens.v), 1)

\* merge_tokenizer_with_metadata(mount_point, source_tokenizer_metadata)
\* on the directory dir and the source file: [err, dir]
merge_tokenizer_with_metadata(dir, source_file) ==
    IF ~dir.metadata.exists \/ ~source_file.exists THEN [err |-> E_NotFound, dir |-> dir]
    ELSE LET h == HybridMetadata(json_load_dict(dir.metadata.data),
                                 json_load_dict(source_file.data))
         IN  IF h.err # NoErr THEN [err |-> h.err, dir |-> dir]
             ELSE [err |-> NoErr,
                   dir |-> [dir EXCEPT !.metadata = File(json_dump_dict(h.val)),
                                       !.hybrid   = File(json_dump_dict(h.val))]]

\* _repackage_gguf with a chunked copy that drops the final partial chunk
repackage_gguf_WholeChunks(fs, source_gguf, modified_metadata, output_gguf) ==
    IF ~fs[source_gguf].exists THEN [err |-> E_NotFound, files |-> fs]
    ELSE IF source_gguf = output_gguf THEN [err |-> E_SameFile, files |-> fs]
    ELSE LET data == fs[source_gguf].data IN
         [err |-> NoErr,
          files |-> [fs EXCEPT ![output_gguf] =
                        File(SubSeq(data, 1, Len(data) - (Len(data) % 32)))]]

\* _repackage_gguf that copies the file up to the end of the descriptor table
repackage_gguf_HeadOnly(fs, source_gguf, modified_metadata, output_gguf) ==
    IF ~fs[source_gguf].exists THEN [err |-> E_NotFound, files |-> fs]
    ELSE IF source_gguf = output_gguf THEN [err |-> E_SameFile, files |-> fs]
    ELSE LET data == fs[source_gguf].data IN
         [err |-> NoErr,
          files |-> [fs EXCEPT ![output_gguf] =
                        File(SubSeq(data, 1, analyze_gguf(data, TRUE).pos))]]

\* _repackage_gguf(source_gguf, modified_metadata, output_gguf) on the file
\* system fs: shutil.copy2(source_gguf, output_gguf); [err, files]
repackage_gguf(fs, source_gguf, modified_metadata, output_gguf) ==
    IF ~fs[source_gguf].exists THEN [err |-> E_NotFound, files |-> fs]
    ELSE IF source_gguf = output_gguf THEN [err |-> E_SameFile, files |-> fs]
    ELSE [err |-> NoErr, files |-> [fs EXCEPT ![output_gguf] = fs[source_gguf]]]

\* the source_tokenizer_metadata files offered to the merge
SourceWithTokens ==
    File(json_dump_dict(
        << [k |-> S_tokenizer_ggml_model,  v |-> PyStr(S_gpt2)],
           [k |-> S_tokenizer_ggml_tokens, v |-> PyList(<< PyStr(S_a), PyStr(S_b) >>)],
           [k |-> S_general_architecture,  v |-> PyStr(S_qwen)],
           [k |-> S_general_license,       v |-> PyStr(S_x_y)] >>))

SourceWithoutTokens ==
    File(json_dump_dict(
        << [k |-> S_tokenizer_ggml_scores, v |-> PyList(<< PyInt(1) >>)],
           [k |-> S_general_name,          v |-> PyStr(S_qwen)] >>))

SourceBadTokens ==
    File(json_dump_dict(<< [k |-> S_tokenizer_ggml_tokens, v |-> PyInt(3)] >>))

TokenizerSources == { SourceWithTokens, SourceWithoutTokens, SourceBadTokens, NoFile }

\* ------------------------------------------------------------------------
\* The extractor and the file system
\* ------------------------------------------------------------------------
SourcePaths == { "a.gguf" }

OutputPaths == { "out.gguf" }

Paths == SourcePaths \cup OutputPaths

MountPoints == { "m1" }

\* the most temporary directories an extractor holds at once
MaxTempDirs == 2

NotMounted == [mounted |-> FALSE, source_gguf |-> ""]

VARIABLES
    files,           \* the GGUF files on disk, by path
    mounts,          \* the directories at the mount points
    virtual_mounts,  \* self.virtual_mounts
    temp_dirs,       \* self.temp_dirs
    disk_tmp,        \* the temporary directories that exist on disk
    last,            \* the last call and its outcome
    session,         \* .gguf_cli_mounts.json of the command line
    pc               \* the next command of each command-line workflow

vars == << files, mounts, virtual_mounts, temp_dirs, disk_tmp, last, session, pc >>

\* the command line's part of the state
cli == << session, pc >>

\* the two workflows run from the command line: mount, strip-telemetry, save
Workflows == { 1, 2 }

\* no .gguf_cli_mounts.json
NoSession == [exists |-> FALSE, mounts |-> << >>]

Call(op, path, mp, r) == [op |-> op, path |-> path, mp |-> mp, err |-> r.err, res |-> r]

Raised(e) == [Cursor0 EXCEPT !.err = e]

\* GGUFExtractor() next to the files fs
Start(fs) ==
    /\ files = fs
    /\ mounts = [m \in MountPoints |-> NoDir]
    /\ virtual_mounts = [m \in MountPoints |-> NotMounted]
    /\ temp_dirs = << >>
    /\ disk_tmp = { }
    /\ last = Call("init", "", "", Cursor0)
    /\ session = NoSession
    /\ pc = [w \in Workflows |-> "mount"]

OneSource(bs) == [p \in Paths |-> IF p \in SourcePaths THEN File(bs) ELSE NoFile]

Init == \E bs \in WorkflowFiles : Start(OneSource(bs))

InitReader == \E bs \in ReaderFiles : Start(OneSource(bs))

\* open(gguf_path, 'rb') and the body of analyze_gguf
AnalyzePath(fs, gguf_path, mem) ==
    IF fs[gguf_path].exists THEN analyze_gguf(fs[gguf_path].data, mem)
    ELSE Raised(E_NotFound)

\* analyze_gguf(gguf_path)
Analyze(gguf_path) ==
    \E mem \in BOOLEAN :
        /\ last' = Call("analyze", gguf_path, "", AnalyzePath(files, gguf_path, mem))
        /\ UNCHANGED << files, mounts, virtual_mounts, temp_dirs, disk_tmp, cli >>

\* the directory extract_gguf writes for an analysis, over what is there
Extracted(dir, analysis) ==
    [dir EXCEPT !.metadata = File(json_dump_dict(analysis.metadata)),
                !.tokenizer = extract_tokenizer_data(dir.tokenizer, analysis)]

\* tempfile.mkdtemp(): a name no directory has
FreshTemp == CHOOSE n \in 1..(Cardinality(disk_tmp) + 1) : n \notin disk_tmp

\* virtual_mount(gguf_path, mount_point)
VirtualMount(gguf_path, mount_point) ==
    /\ Len(temp_dirs) < MaxTempDirs
    /\ \E mem \in BOOLEAN :
        LET r == AnalyzePath(files, gguf_path, mem) IN
        /\ temp_dirs' = Append(temp_dirs, FreshTemp)
        /\ disk_tmp' = disk_tmp \cup { FreshTemp }
        /\ last' = Call("virtual_mount", gguf_path, mount_point, Raised(r.err))
        /\ IF r.err # NoErr
           THEN UNCHANGED << mounts, virtual_mounts >>
           ELSE /\ mounts' = [mounts EXCEPT
                                 ![mount_point] = Extracted(mounts[mount_point], r.val)]
                /\ virtual_mounts' = [virtual_mounts EXCEPT
                                 ![mount_point] = [mounted |-> TRUE,
                                                   source_gguf |-> gguf_path]]
        /\ UNCHANGED << files, cli >>

\* strip_telemetry(mount_point)
StripTelemetry(mount_point) ==
    /\ mounts' = [mounts EXCEPT ![mount_point] = strip_telemetry(mounts[mount_point])]
    /\ last' = Call("strip_telemetry", "", mount_point,
                    [Cursor0 EXCEPT !.val = removed_count(mounts[mount_point])])
    /\ UNCHANGED << files, virtual_mounts, temp_dirs, disk_tmp, cli >>

\* merge_tokenizer_with_metadata(mount_point, source_tokenizer_metadata)
MergeTokenizer(mount_point, source_file) ==
    LET m == merge_tokenizer_with_metadata(mounts[mount_point], source_file) IN
    /\ mounts' = [mounts EXCEPT ![mount_point] = m.dir]
    /\ last' = Call("merge_tokenizer_with_metadata", "", mount_point,
                    [Raised(m.err) EXCEPT !.val = source_file])
    /\ UNCHANGED << files, virtual_mounts, temp_dirs, disk_tmp, cli >>

\* save_virtual_mount that returns quietly for a mount point it does not know
SaveVirtualMount_QuietWhenUnknown(mount_point, output_gguf) ==
    LET mount_info == virtual_mounts[mount_point]
        w == IF ~mount_info.mounted THEN [err |-> NoErr, files |-> files]
             ELSE IF ~mounts[mount_point].metadata.exists
             THEN [err |-> E_NotFound, files |-> files]
             ELSE repackage_gguf(files, mount_info.source_gguf,
                                 json_load_dict(mounts[mount_point].metadata.data),
                                 output_gguf)
    IN  /\ files' = w.files
        /\ last' = Call("save_virtual_mount", output_gguf, mount_point, Raised(w.err))
        /\ UNCHANGED << mounts, virtual_mounts, temp_dirs, disk_tmp, cli >>

\* save_virtual_mount(mount_point, output_gguf)
SaveVirtualMount(mount_point, output_gguf) ==
    LET mount_info == virtual_mounts[mount_point]
        w == IF ~mount_info.mounted THEN [err |-> E_NoMount, files |-> files]
             ELSE IF ~mounts[mount_point].metadata.exists
             THEN [err |-> E_NotFound, files |-> files]
             ELSE repackage_gguf(files, mount_info.source_gguf,
                                 json_load_dict(mounts[mount_point].metadata.data),
                                 output_gguf)
    IN  /\ files' = w.files
        /\ last' = Call("save_virtual_mount", output_gguf, mount_point, Raised(w.err))
        /\ UNCHANGED << mounts, virtual_mounts, temp_dirs, disk_tmp, cli >>

\* cleanup_virtual_mounts without self.virtual_mounts.clear()
CleanupVirtualMounts_KeepsMounts ==
    /\ disk_tmp' = disk_tmp \ { temp_dirs[i] : i \in 1..Len(temp_dirs) }
    /\ temp_dirs' = << >>
    /\ last' = Call("cleanup_virtual_mounts", "", "", Cursor0)
    /\ UNCHANGED << files, mounts, virtual_mounts, cli >>

\* cleanup_virtual_mounts()
CleanupVirtualMounts ==
    /\ disk_tmp' = disk_tmp \ { temp_dirs[i] : i \in 1..Len(temp_dirs) }
    /\ temp_dirs' = << >>
    /\ virtual_mounts' = [m \in MountPoints |-> NotMounted]
    /\ last' = Call("cleanup_virtual_mounts", "", "", Cursor0)
    /\ UNCHANGED << files, mounts, cli >>

Next ==
    \/ \E p \in SourcePaths, m \in MountPoints : VirtualMount(p, m)
    \/ \E m \in MountPoints : StripTelemetry(m)
    \/ \E m \in MountPoints, s \in TokenizerSources : MergeTokenizer(m, s)
    \/ \E m \in MountPoints, p \in Paths : SaveVirtualMount(m, p)
    \/ CleanupVirtualMounts

Spec == Init /\ [][Next]_vars

NextReader == \E p \in Paths : Analyze(p)

SpecReader == InitReader /\ [][NextReader]_vars

\* ------------------------------------------------------------------------
\* Mounting and fixing the tokenizer
\* ------------------------------------------------------------------------

\* {"tokenizer.ggml.model": "gpt2", "tokenizer.ggml.tokens": ["a", "<|end|>"]}
FileEndToken ==
    EncHeader(3, 0, 2)
    \o EncEntry(S_tokenizer_ggml_model, 8, EncStr(S_gpt2))
    \o EncEntry(S_tokenizer_ggml_tokens, 9,
                EncArray(8, 2, EncStr(S_a) \o EncStr(S_end)))

\* the source files of the tokenizer workflow: with a clean token list, with
\* an end token in the list, and without tokenizer keys
TokenizerFiles == { FileScenario, FileEndToken, FileTelemetry }

\* {"vocab": {"a": 0, "<|end|>": 1, "talking <|end|>": 2}, "model": "gpt2"}
VocabDictJson ==
    json_dump_dict(
        << [k |-> S_vocab,
            v |-> PyDict(<< [k |-> S_a, v |-> PyInt(0)],
                            [k |-> S_end, v |-> PyInt(1)],
                            [k |-> S_talking_end, v |-> PyInt(2)] >>)],
           [k |-> S_model, v |-> PyStr(S_gpt2)] >>)

\* {"vocab": ["a", "<|end|>"]}
VocabListJson ==
    json_dump_dict(<< [k |-> S_vocab, v |-> PyList(<< PyStr(S_a), PyStr(S_end) >>)] >>)

\* {"vocab": {"a": 0, "b": 1}}
CleanJson ==
    json_dump_dict(
        << [k |-> S_vocab,
            v |-> PyDict(<< [k |-> S_a, v |-> PyInt(0)], [k |-> S_b, v |-> PyInt(1)] >>)] >>)

\* a mount point directory holding tokenizer/tokenizer.json = doc
DirWithTokenizer(doc) ==
    [NoDir EXCEPT !.tokenizer = WriteJson([exists |-> TRUE, files |-> << >>],
                                         S_tokenizer, doc)]

\* what is at the mount point before the first mount
EarlierDirs == { NoDir, DirWithTokenizer(VocabDictJson), DirWithTokenizer(VocabListJson) }

\* the clean_tokenizer_source arguments: none, a clean file, a missing file
CleanSources == { NoClean, Clean(File(CleanJson)), Clean(NoFile) }

\* the most JSON files a tokenizer directory holds when a fix is started
MaxTokenizerFiles == 2

InitTokenizer ==
    \E bs \in TokenizerFiles, dir \in EarlierDirs :
        /\ files = OneSource(bs)
        /\ mounts = [m \in MountPoints |-> dir]
        /\ virtual_mounts = [m \in MountPoints |-> NotMounted]
        /\ temp_dirs = << >>
        /\ disk_tmp = { }
        /\ last = Call("init", "", "", Cursor0)
        /\ session = NoSession
        /\ pc = [w \in Workflows |-> "mount"]

\* the orders in which glob can list the files of names
GlobOrders(names) ==
    { order \in [1..Cardinality(names) -> names] :
        \A i, j \in 1..Cardinality(names) : order[i] = order[j] => i = j }

\* fix_broken_tokenizer(mount_point, clean_tokenizer_source)
FixBrokenTokenizer(mount_point, clean) ==
    /\ Cardinality(DOMAIN mounts[mount_point].tokenizer.files) <= MaxTokenizerFiles
    /\ \E tokenizer_files \in GlobOrders(DOMAIN mounts[mount_point].tokenizer.files) :
        /\ mounts' = [mounts EXCEPT ![mount_point] =
               fix_broken_tokenizer(mounts[mount_point], clean, tokenizer_files).dir]
        /\ last' = Call("fix_broken_tokenizer", "", mount_point,
               [Raised(fix_broken_tokenizer(mounts[mount_point], clean,
                                            tokenizer_files).err)
                   EXCEPT !.val = clean])
    /\ UNCHANGED << files, virtual_mounts, temp_dirs, disk_tmp, cli >>

NextTokenizer ==
    \/ \E p \in SourcePaths, m \in MountPoints : VirtualMount(p, m)
    \/ \E m \in MountPoints, clean \in CleanSources : FixBrokenTokenizer(m, clean)

SpecTokenizer == InitTokenizer /\ [][NextTokenizer]_vars

\* ------------------------------------------------------------------------
\* The command line: every command is a process with a GGUFExtractor of its
\* own, so self.virtual_mounts and self.temp_dirs do not outlive a command;
\* what the commands share is the disk and .gguf_cli_mounts.json
\* ------------------------------------------------------------------------
CliSource(w) == IF w = 1 THEN "a.gguf" ELSE "b.gguf"

CliMountPoint(w) == IF w = 1 THEN "m1" ELSE "m2"

CliOutput(w) == IF w = 1 THEN "out1.gguf" ELSE "out2.gguf"

\* two different valid source files and no output file
TwoSources(first, second) ==
    [p \in { CliSource(w) : w \in Workflows } \cup { CliOutput(w) : w \in Workflows } |->
        IF p = CliSource(1) THEN File(first)
        ELSE IF p = CliSource(2) THEN File(second)
        ELSE NoFile]

InitCli ==
    \E first \in ValidFiles, second \in ValidFiles :
        /\ first # second
        /\ files = TwoSources(first, second)
        /\ mounts = [m \in { CliMountPoint(w) : w \in Workflows } |-> NoDir]
        /\ virtual_mounts = [m \in { CliMountPoint(w) : w \in Workflows } |-> NotMounted]
        /\ temp_dirs = << >>
        /\ disk_tmp = { }
        /\ last = Call("init", "", "", Cursor0)
        /\ session = NoSession
        /\ pc = [w \in Workflows |-> "mount"]

\* what a command printed last
Printed(message) == [Cursor0 EXCEPT !.val = message]

\* cmd_mount with gguf_file and mount_point of workflow w: the session file
\* is written anew with this one mount, unless virtual_mount raised
CmdMount(w) ==
    /\ pc[w] = "mount"
    /\ \E mem \in BOOLEAN :
        LET r == AnalyzePath(files, CliSource(w), mem) IN
        /\ disk_tmp' = disk_tmp \cup { FreshTemp }
        /\ last' = Call("cmd_mount", CliSource(w), CliMountPoint(w), Raised(r.err))
        /\ IF r.err # NoErr
           THEN UNCHANGED << mounts, session >>
           ELSE /\ mounts' = [mounts EXCEPT
                                 ![CliMountPoint(w)] = Extracted(mounts[CliMountPoint(w)], r.val)]
                /\ session' = [exists |-> TRUE,
                               mounts |-> << [k |-> CliMountPoint(w), v |-> CliSource(w)] >>]
    /\ pc' = [pc EXCEPT ![w] = "strip-telemetry"]
    /\ UNCHANGED << files, virtual_mounts, temp_dirs >>

\* cmd_strip_telemetry with the mount_point of workflow w
CmdStripTelemetry(w) ==
    /\ pc[w] = "strip-telemetry"
    /\ mounts' = [mounts EXCEPT
                     ![CliMountPoint(w)] = strip_telemetry(mounts[CliMountPoint(w)])]
    /\ last' = Call("cmd_strip_telemetry", "", CliMountPoint(w), Cursor0)
    /\ pc' = [pc EXCEPT ![w] = "save"]
    /\ UNCHANGED << files, virtual_mounts, temp_dirs, disk_tmp, session >>

\* the body of cmd_save: [err, val, files], val being what is printed; a
\* FileNotFoundError of open or of save_virtual_mount is caught
cmd_save(fs, dirs, sess, mount_point, output_gguf) ==
    IF ~sess.exists
    THEN [err |-> NoErr, val |-> "No mount session found", files |-> fs]
    ELSE IF ~DictHas(sess.mounts, mount_point)
    THEN [err |-> NoErr, val |-> "No mount found", files |-> fs]
    ELSE IF ~dirs[mount_point].metadata.exists
    THEN [err |-> NoErr, val |-> "No mount session found", files |-> fs]
    ELSE LET w == repackage_gguf(fs, DictGet(sess.mounts, mount_point),
                                 json_load_dict(dirs[mount_point].metadata.data),
                                 output_gguf)
         IN  IF w.err = E_NotFound
             THEN [err |-> NoErr, val |-> "No mount session found", files |-> fs]
             ELSE IF w.err # NoErr THEN [err |-> w.err, val |-> "", files |-> fs]
             ELSE [err |-> NoErr, val |-> "Modified GGUF saved", files |-> w.files]

\* cmd_save with mount_point and output_gguf of workflow w
CmdSave(w) ==
    /\ pc[w] = "save"
    /\ LET r == cmd_save(files, mounts, session, CliMountPoint(w), CliOutput(w)) IN
       /\ files' = r.files
       /\ last' = Call("cmd_save", CliOutput(w), CliMountPoint(w),
                       [Printed(r.val) EXCEPT !.err = r.err])
    /\ pc' = [pc EXCEPT ![w] = "done"]
    /\ UNCHANGED << mounts, virtual_mounts, temp_dirs, disk_tmp, session >>

NextCli == \E w \in Workflows : CmdMount(w) \/ CmdStripTelemetry(w) \/ CmdSave(w)

SpecCli == InitCli /\ [][NextCli]_vars

\* ------------------------------------------------------------------------
\* Properties of the mount / edit / save workflow (Spec)
\* ------------------------------------------------------------------------

\* save_virtual_mount has just returned normally
SaveReturned == last.op = "save_virtual_mount" /\ last.err = NoErr

\* the source file of the mount that was saved, read again
SavedSource(mem) == AnalyzePath(files, virtual_mounts[last.mp].source_gguf, mem)

\* the file that was written, read again
SavedOutput(mem) == AnalyzePath(files, last.path, mem)

\* the bytes of the file at path after the descriptor table: the alignment
\* padding and the tensor data region
TensorData(path, r) == SubSeq(files[path].data, r.pos + 1, Len(files[path].data))

\* metadata.json of the saved mount is as virtual_mount wrote it
Unedited(mem) ==
    mounts[last.mp].metadata = File(json_dump_dict(SavedSource(mem).val.metadata))

\* C1: when a mount is saved with no edit applied, the output re-parses to a
\* document equal to the one read from the source: header counts, metadata
\* items in order, descriptors, and the bytes of the tensor data
C1_RoundTripIdentity ==
    SaveReturned =>
        \A mem \in BOOLEAN :
            LET D == SavedSource(mem)
                R == SavedOutput(mem)
            IN  (D.err = NoErr /\ Unedited(mem)) =>
                    /\ R.err = NoErr
                    /\ R.val = D.val
                    /\ TensorData(last.path, R)
                       = TensorData(virtual_mounts[last.mp].source_gguf, D)

\* an unedited mount of the scenario file has been saved
C1_Witness ==
    /\ SaveReturned
    /\ files[virtual_mounts[last.mp].source_gguf].data = FileScenario
    /\ Unedited(TRUE)
    /\ Len(SavedOutput(TRUE).val.metadata) = 2
    /\ Len(SavedOutput(TRUE).val.tensors) = 1

\* C2: the file written by save_virtual_mount re-parses to the metadata of
\* the mount's metadata.json, in the same order
C2_SavedOutputReflectsEdits ==
    SaveReturned =>
        \A mem \in BOOLEAN :
            /\ SavedOutput(mem).err = NoErr
            /\ File(json_dump_dict(SavedOutput(mem).val.metadata)) = mounts[last.mp].metadata

\* C3: the header of the written file carries the number of keys of the
\* edited map as metadata_kv_count and the number of descriptors as
\* tensor_count
C3_WriterRecomputesCounts ==
    SaveReturned =>
        \A mem \in BOOLEAN :
            /\ SavedOutput(mem).err = NoErr
            /\ SavedOutput(mem).val.metadata_count = Len(mounts[last.mp].metadata.data)
            /\ SavedOutput(mem).val.tensor_count = Len(SavedOutput(mem).val.tensors)

\* C4: whatever edits were applied to the mount, the written file has the
\* descriptors of the source and the same bytes after the descriptor table
C4_TensorPayloadPreserved ==
    SaveReturned =>
        \A mem \in BOOLEAN :
            LET D == SavedSource(mem)
                R == SavedOutput(mem)
            IN  D.err = NoErr =>
                    /\ R.err = NoErr
                    /\ R.val.tensors = D.val.tensors
                    /\ TensorData(last.path, R)
                       = TensorData(virtual_mounts[last.mp].source_gguf, D)

\* an edited mount of a file with a tensor has been saved
C4_Witness ==
    /\ SaveReturned
    /\ ~Unedited(TRUE)
    /\ Len(SavedSource(TRUE).val.tensors) >= 1
    /\ Len(TensorData(last.path, SavedOutput(TRUE))) >= 48

\* ------------------------------------------------------------------------
\* Properties of the reader (SpecReader)
\* ------------------------------------------------------------------------

\* analyze_gguf has just been called on an existing file
Analyzed == last.op = "analyze" /\ files[last.path].exists

\* the bytes analyze_gguf was called on
Input == files[last.path].data

\* C5: analyze_gguf fails on every strict prefix of a valid file
C5_TruncationSafety ==
    (Analyzed /\ \E v \in ValidFiles : IsStrictPrefix(Input, v)) => last.err # NoErr

\* C6: a read that gets fewer bytes than it asked for fails: no document is
\* returned after a short read
C6_ShortReadFails ==
    (Analyzed /\ last.res.short) => last.err # NoErr

\* C7: once a value-type or element-type tag outside 0..9 has been decoded,
\* the read fails with the unknown-type error
C7_UnknownTagRejected ==
    (Analyzed /\ last.res.badtag) => last.err = E_UnknownType

C9_MagicMismatchFails ==
    (Analyzed /\ SubSeq(Input, 1, Min(4, Len(Input))) # MAGIC) =>
        /\ last.err = E_Magic
        /\ last.res.pos <= 4

\* a file that is well-formed but for its first byte has been analyzed
C9_Witness ==
    /\ Analyzed
    /\ Input = ScenarioFile(3, FALSE, 8, 8, 0)
    /\ last.err = E_Magic

\* C10: on an input with the magic and a version other than VERSION,
\* analyze_gguf fails
C10_UnsupportedVersionFails ==
    (Analyzed /\ Len(Input) >= 8 /\ SubSeq(Input, 1, 4) = MAGIC
              /\ UIntLE(SubSeq(Input, 5, 8)) # VERSION)
        => last.err # NoErr

\* C11: an array whose announced length exceeds the bytes left in the file is
\* rejected before any of its elements is decoded.
C11_OverlongArrayRejectedEarly ==
    (Analyzed /\ last.res.implausible)
        => (last.err # NoErr /\ ~last.res.iterated)

\* the bytes of one element of a tensor type: 4 for F32 and 2 for F16; the
\* block-quantised types are counted as empty, which only shortens a span
ElementSize(type_id) == IF type_id = 0 THEN 4 ELSE IF type_id = 1 THEN 2 ELSE 0

RECURSIVE Product(_)

Product(dimensions) ==
    IF dimensions = << >> THEN 1 ELSE Head(dimensions) * Product(Tail(dimensions))

\* the bytes a descriptor claims in the data region
ByteSpan(tensor) == Product(tensor.dimensions) * ElementSize(tensor.type_id)

RECURSIVE TotalBytes(_)

TotalBytes(tensors) ==
    IF tensors = << >> THEN 0 ELSE ByteSpan(Head(tensors)) + TotalBytes(Tail(tensors))

\* the start of the data region of a file whose descriptor table ends at pos
DataStart(pos) == ((pos + 31) \div 32) * 32

\* offsets do not decrease, no span reaches into the next descriptor's offset,
\* and the spans, if there are any bytes in them, fit between the start of the
\* data region and the end of file
DescriptorInvariant(tensors, pos, file_size) ==
    /\ \A i \in 1..(Len(tensors) - 1) :
           /\ tensors[i].offset <= tensors[i + 1].offset
           /\ tensors[i].offset + ByteSpan(tensors[i]) <= tensors[i + 1].offset
    /\ TotalBytes(tensors) = 0 \/ DataStart(pos) + TotalBytes(tensors) <= file_size

\* C12: every document analyze_gguf returns satisfies the descriptor invariant
C12_DescriptorInvariant ==
    (Analyzed /\ last.err = NoErr)
        => DescriptorInvariant(last.res.val.tensors, last.res.pos, Len(Input))

\* the well-formed files do satisfy it
C12_ValidFilesConsistent ==
    (Analyzed /\ Input \in ValidFiles)
        => DescriptorInvariant(last.res.val.tensors, last.res.pos, Len(Input))

\* the descriptor invariant, and no span ends after the data region
SpansConsistent(tensors, pos, file_size) ==
    /\ DescriptorInvariant(tensors, pos, file_size)
    /\ \A i \in 1..Len(tensors) :
           ByteSpan(tensors[i]) = 0
           \/ DataStart(pos) + tensors[i].offset + ByteSpan(tensors[i]) <= file_size

\* C13: save_virtual_mount of a mount whose source has a descriptor span that
\* overlaps another or ends after the data region fails, and no output file
\* is written
C13_WriterRejectsInconsistentDescriptors ==
    (last.op = "save_virtual_mount" /\ virtual_mounts[last.mp].mounted) =>
        \A mem \in BOOLEAN :
            LET D == SavedSource(mem) IN
            (D.err = NoErr
             /\ ~SpansConsistent(D.val.tensors, D.pos, D.val.file_size)) =>
                /\ last.err # NoErr
                /\ last.path # virtual_mounts[last.mp].source_gguf
                       => ~files[last.path].exists

\* ------------------------------------------------------------------------
\* Properties of the edit operations (Spec)
\* ------------------------------------------------------------------------

\* C14: strip_telemetry applied to a mount right after strip_telemetry leaves
\* metadata.json as the first application left it and removes no key
C14_StripTelemetryIdempotent ==
    [][(last.op = "strip_telemetry" /\ last'.op = "strip_telemetry"
        /\ last'.mp = last.mp)
           => (mounts' = mounts /\ last'.res.val = 0)]_vars

\* strip_telemetry has run again on a mount whose source had telemetry keys:
\* they are gone from metadata.json and this run removed none
C14_Witness ==
    /\ last.op = "strip_telemetry"
    /\ last.res.val = 0
    /\ files["a.gguf"].data = FileTelemetry
    /\ mounts[last.mp].metadata.exists
    /\ ~DictHas(json_load_dict(mounts[last.mp].metadata.data), S_general_license)

\* C15: merge_tokenizer_with_metadata applied to a mount right after the same
\* call with the same source leaves the mount (keys, values and their order)
\* as the first application left it
C15_MergeIdempotent ==
    [][(last.op = "merge_tokenizer_with_metadata"
        /\ last'.op = "merge_tokenizer_with_metadata"
        /\ last'.mp = last.mp /\ last'.res.val = last.res.val)
           => mounts' = mounts]_vars

\* a source with a token list has been merged into a mount: its tokenizer
\* model and a vocabulary size are in metadata.json
C15_Witness ==
    /\ last.op = "merge_tokenizer_with_metadata"
    /\ last.err = NoErr
    /\ last.res.val = SourceWithTokens
    /\ LET metadata == json_load_dict(mounts[last.mp].metadata.data) IN
       /\ DictGet(metadata, S_tokenizer_ggml_model) = PyStr(S_gpt2)
       /\ \E i \in 1..Len(vocab_size_keys) :
              DictHas(metadata, vocab_size_keys[i])
              /\ DictGet(metadata, vocab_size_keys[i]) = PyInt(2)

\* the keys the merge is said to copy
NamedTokenizerKeys ==
    { S_tokenizer_ggml_model, S_tokenizer_ggml_tokens, S_tokenizer_ggml_scores,
      S_tokenizer_ggml_token_type, S_tokenizer_ggml_merges,
      S_tokenizer_ggml_added_tokens }

\* the keys the merge sets to the number of tokens
VocabSizeKeys == { S_general_vocab_size, S_llama_vocab_size, S_qwen_vocab_size }

\* a merge_tokenizer_with_metadata call returns in this step
MergeReturns ==
    last'.op = "merge_tokenizer_with_metadata" /\ last'.err = NoErr

\* metadata.json of the merged mount before the call, after it, and the source
MergeBefore == json_load_dict(mounts[last'.mp].metadata.data)

MergeAfter == json_load_dict(mounts'[last'.mp].metadata.data)

MergeSource == json_load_dict(last'.res.val.data)

\* key is in both maps with one value, or in neither
SameAt(d, e, key) ==
    /\ DictHas(d, key) = DictHas(e, key)
    /\ DictHas(d, key) => DictGet(d, key) = DictGet(e, key)

\* the named keys of the source have the source's value in the result, the
\* others are as they were
NamedKeysCopied ==
    \A key \in NamedTokenizerKeys :
        IF DictHas(MergeSource, key)
        THEN DictHas(MergeAfter, key)
             /\ DictGet(MergeAfter, key) = DictGet(MergeSource, key)
        ELSE SameAt(MergeBefore, MergeAfter, key)

\* every key of the result outside keys was in the target with the same value
FrameOutside(keys) ==
    \A i \in 1..Len(MergeAfter) :
        MergeAfter[i].k \notin keys => SameAt(MergeBefore, MergeAfter, MergeAfter[i].k)

\* C16 as stated: after merge_tokenizer_with_metadata every key of the result
\* that is not a named tokenizer key has the value it had in the target and
\* was there before, every named key of the source has the source's value,
\* and named keys absent from the source are as they were
C16_MergeCopiesOnlyNamedKeys ==
    [][MergeReturns => (FrameOutside(NamedTokenizerKeys) /\ NamedKeysCopied)]_vars

\* C16: the same, except for general.vocab_size, llama.vocab_size and
\* qwen.vocab_size: they are as they were when the source has no
\* tokenizer.ggml.tokens, and otherwise each of them that was in the target is
\* set to the number of tokens and each of the others is absent or set to it
C16_MergeFrame ==
    [][MergeReturns =>
          /\ FrameOutside(NamedTokenizerKeys \cup VocabSizeKeys)
          /\ NamedKeysCopied
          /\ \A key \in VocabSizeKeys :
                 IF ~DictHas(MergeSource, S_tokenizer_ggml_tokens)
                 THEN SameAt(MergeBefore, MergeAfter, key)
                 ELSE LET n == PyInt(Len(DictGet(MergeSource, S_tokenizer_ggml_tokens).v))
                      IN  IF DictHas(MergeBefore, key)
                          THEN DictHas(MergeAfter, key) /\ DictGet(MergeAfter, key) = n
                          ELSE DictHas(MergeAfter, key) => DictGet(MergeAfter, key) = n]_vars

\* a source with two tokens, another architecture and a licence has been
\* merged into the mount of a llama model: llama.vocab_size is 2 and the
\* architecture is still the target's
C16_Witness ==
    /\ last.op = "merge_tokenizer_with_metadata"
    /\ last.err = NoErr
    /\ last.res.val = SourceWithTokens
    /\ files["a.gguf"].data = FileScenario
    /\ LET metadata == json_load_dict(mounts[last.mp].metadata.data) IN
       /\ DictGet(metadata, S_llama_vocab_size) = PyInt(2)
       /\ DictGet(metadata, S_general_architecture) = PyStr(S_llama)
       /\ DictGet(metadata, S_tokenizer_ggml_tokens)
          = PyList(<< PyStr(S_a), PyStr(S_b) >>)

\* C17: strip_telemetry and merge_tokenizer_with_metadata return without
\* raising; stated for the calls that find metadata.json in the mount and, for
\* the merge, the source file, whatever those hold
C17_EditsTotal ==
    /\ last.op = "strip_telemetry" => last.err = NoErr
    /\ (last.op = "merge_tokenizer_with_metadata"
        /\ mounts[last.mp].metadata.exists /\ last.res.val.exists)
           => last.err = NoErr

\* ------------------------------------------------------------------------
\* Properties of the analysis (SpecReader)
\* ------------------------------------------------------------------------

\* the keys whose presence marks tokenizer data, and telemetry
TokenizerIndicatorKeys ==
    { S_tokenizer_ggml_model, S_tokenizer_ggml_tokens, S_tokenizer_ggml_scores,
      S_tokenizer_ggml_token_type }

TelemetryIndicatorKeys ==
    { S_general_source_url, S_general_source_huggingface_repository,
      S_training_dataset, S_training_data_url }

\* the metadata map as _read_metadata returns it for the analysed file
MetadataAsRead(mem) ==
    read_metadata(Input, [Cursor0 EXCEPT !.pos = 24],
                  UIntLE(SubSeq(Input, 17, 24)), mem).val

\* C18: has_tokenizer is true exactly when some key of the metadata map is a
\* tokenizer indicator key and has_telemetry exactly when some key is a
\* telemetry indicator key, whatever the values, and the map of the analysis
\* is the map as it was read
C18_DetectionByKeyMembership ==
    (Analyzed /\ last.err = NoErr) =>
        LET analysis == last.res.val IN
        /\ analysis.has_tokenizer
           = (\E i \in 1..Len(analysis.metadata) :
                 analysis.metadata[i].k \in TokenizerIndicatorKeys)
        /\ analysis.has_telemetry
           = (\E i \in 1..Len(analysis.metadata) :
                 analysis.metadata[i].k \in TelemetryIndicatorKeys)
        /\ \E mem \in BOOLEAN : analysis.metadata = MetadataAsRead(mem)

\* a file with training.dataset and general.license and no tokenizer key has
\* been analysed: telemetry is reported, a tokenizer is not
C18_Witness ==
    /\ Analyzed
    /\ last.err = NoErr
    /\ last.res.val.has_telemetry
    /\ ~last.res.val.has_tokenizer
    /\ DictHas(last.res.val.metadata, S_training_dataset)
    /\ DictHas(last.res.val.metadata, S_general_license)

\* ------------------------------------------------------------------------
\* Properties of two workflows on different documents (SpecCli)
\* ------------------------------------------------------------------------

\* the mount directory workflow w leaves when it runs on its own
AloneMount(w) ==
    strip_telemetry(Extracted(NoDir, AnalyzePath(files, CliSource(w), FALSE).val))

\* the output file workflow w writes when it runs on its own
AloneOutput(w) ==
    repackage_gguf(files, CliSource(w),
                   json_load_dict(AloneMount(w).metadata.data), CliOutput(w)).files[CliOutput(w)]

\* workflow w is as it is after running on its own
AsAlone(w) ==
    /\ mounts[CliMountPoint(w)] = AloneMount(w)
    /\ files[CliOutput(w)] = AloneOutput(w)

\* C19: when both workflows have run, in whatever interleaving of their
\* commands, each mount directory and each output file is what the workflow
\* gives when the two run one after the other
C19_DocumentsDoNotInterfere ==
    (\A w \in Workflows : pc[w] = "done") => \A w \in Workflows : AsAlone(w)

\* run one after the other, in either order, the workflows do leave those
\* directories and files
C19_OneAfterTheOther ==
    \A w \in Workflows :
        []((pc[w] = "done" /\ \A v \in Workflows \ { w } : pc[v] = "mount")
              => []((\A v \in Workflows : pc[v] = "done")
                       => \A v \in Workflows : AsAlone(v)))

\* C20: the metadata map of every document analyze_gguf returns has no key
\* twice and as many entries as the metadata_count it reports
C20_MetadataCountMatchesMap ==
    (Analyzed /\ last.err = NoErr) =>
        LET analysis == last.res.val IN
        /\ \A i, j \in 1..Len(analysis.metadata) :
               analysis.metadata[i].k = analysis.metadata[j].k => i = j
        /\ analysis.metadata_count = Len(analysis.metadata)

\* ------------------------------------------------------------------------
\* Properties of the mount registry (Spec)
\* ------------------------------------------------------------------------

\* a save_virtual_mount call ends in this step
SaveEnds == last'.op = "save_virtual_mount"

PreservedKeys ==
    { S_general_architecture, S_general_parameter_count, S_llama_context_length,
      S_llama_embedding_length, S_llama_block_count, S_llama_feed_forward_length,
      S_llama_attention_head_count, S_llama_attention_head_count_kv }

\* C22: after merge_tokenizer_with_metadata each preserved key has the value
\* it had in the target before, or is absent as before, whatever the source
\* holds for it
C22_MergePreservesArchitecture ==
    [][MergeReturns =>
          \A key \in PreservedKeys : SameAt(MergeBefore, MergeAfter, key)]_vars

\* a source that names another architecture has been merged into a mount:
\* hybrid_metadata.json and metadata.json still name the target's
C22_Witness ==
    /\ last.op = "merge_tokenizer_with_metadata"
    /\ last.err = NoErr
    /\ mounts[last.mp].hybrid.exists
    /\ LET source == json_load_dict(last.res.val.data)
           hybrid == json_load_dict(mounts[last.mp].hybrid.data)
       IN  /\ DictHas(source, S_general_architecture)
           /\ DictHas(hybrid, S_general_architecture)
           /\ DictGet(source, S_general_architecture)
                 # DictGet(hybrid, S_general_architecture)
           /\ mounts[last.mp].metadata = mounts[last.mp].hybrid

\* the number of tokens of the source of the merge
SourceTokenCount == PyInt(Len(DictGet(MergeSource, S_tokenizer_ggml_tokens).v))

\* C23: when the source has tokenizer.ggml.tokens, every one of the three
\* vocab-size keys that is in the result holds the number of source tokens,
\* and so does <architecture>.vocab_size for the target's architecture;
\* when the source has none, the three keys are as they were
C23_VocabSizeFollowsTokenizer ==
    [][MergeReturns =>
          IF DictHas(MergeSource, S_tokenizer_ggml_tokens)
          THEN /\ \A key \in VocabSizeKeys :
                      DictHas(MergeAfter, key)
                          => DictGet(MergeAfter, key) = SourceTokenCount
               /\ DictHas(MergeBefore, S_general_architecture)
                      => LET own == DictGet(MergeBefore, S_general_architecture).v
                                    \o DotVocabSize
                         IN  /\ DictHas(MergeAfter, own)
                             /\ DictGet(MergeAfter, own) = SourceTokenCount
          ELSE \A key \in VocabSizeKeys : SameAt(MergeBefore, MergeAfter, key)]_vars

\* ------------------------------------------------------------------------
\* Fixing the tokenizer of a mount (SpecTokenizer)
\* ------------------------------------------------------------------------

\* fix_broken_tokenizer has returned on a mount with a tokenizer directory
FixReturns ==
    /\ last'.op = "fix_broken_tokenizer"
    /\ last'.err = NoErr
    /\ mounts[last'.mp].tokenizer.exists

\* the JSON files of the tokenizer directory before and after the call
TokenizerBefore == mounts[last'.mp].tokenizer.files

TokenizerAfter == mounts'[last'.mp].tokenizer.files

\* the end tokens that make a tokenizer endless
EndTokens == { S_end, S_end_talking, S_talking_end }

\* the members of a tokenizer document that hold its vocabulary
VocabularyMembers == { S_vocab, S_tokens }

\* the tokens a vocabulary member lists: the keys of an object, the strings
\* of an array
TokensOf(member) ==
    IF member.j = "object" THEN { member.v[i].k : i \in 1..Len(member.v) }
    ELSE IF member.j = "array"
    THEN { member.v[i].v : i \in { n \in 1..Len(member.v) : member.v[n].j = "string" } }
    ELSE { }

\* the vocabulary of a tokenizer document
VocabularyOf(doc) ==
    UNION { TokensOf(doc[i].v) : i \in { n \in 1..Len(doc) : doc[n].k \in VocabularyMembers } }

IsEndEntry(entry) == entry.k \in EndTokens

IsEndString(element) == element.j = "string" /\ element.v \in EndTokens

KeptEntry(entry) == ~IsEndEntry(entry)

KeptElement(element) == ~IsEndString(element)

\* a vocabulary member without the end tokens, every other entry as it was
WithoutEndTokens(member) ==
    IF member.j = "object" THEN [member EXCEPT !.v = SelectSeq(member.v, KeptEntry)]
    ELSE IF member.j = "array" THEN [member EXCEPT !.v = SelectSeq(member.v, KeptElement)]
    ELSE member

\* a tokenizer document with the end tokens taken out of its vocabulary
DocWithoutEndTokens(doc) ==
    [i \in 1..Len(doc) |->
        IF doc[i].k \in VocabularyMembers
        THEN [k |-> doc[i].k, v |-> WithoutEndTokens(doc[i].v)]
        ELSE doc[i]]

\* C24: after fix_broken_tokenizer (no clean source given), for every JSON
\* file found in the tokenizer directory there is a <stem>_fixed.json whose
\* vocabulary holds none of the three end tokens and which is otherwise the
\* original document, and the original file is as it was; the tokenizer.json
\* written by virtual_mount is one of these files
C24_FixRemovesEndTokens ==
    [][(FixReturns /\ ~last'.res.val.given) =>
          \A name \in DOMAIN TokenizerBefore :
              /\ Fixed(name) \in DOMAIN TokenizerAfter
              /\ VocabularyOf(TokenizerAfter[Fixed(name)]) \cap EndTokens = { }
              /\ TokenizerAfter[Fixed(name)] = DocWithoutEndTokens(TokenizerBefore[name])
              /\ Fixed(name) \notin DOMAIN TokenizerBefore
                     => TokenizerAfter[name] = TokenizerBefore[name]]_vars

\* C25: after fix_broken_tokenizer with a clean_tokenizer_source,
\* tokenizer/tokenizer_fixed.json holds the contents of the clean source,
\* whatever JSON files the tokenizer directory held before
C25_CleanSourceInstalled ==
    [][(FixReturns /\ last'.res.val.given) =>
          /\ Fixed(S_tokenizer) \in DOMAIN TokenizerAfter
          /\ TokenizerAfter[Fixed(S_tokenizer)] = last'.res.val.file.data]_vars

\* ------------------------------------------------------------------------
\* What strip_telemetry leaves in metadata.json (Spec)
\* ------------------------------------------------------------------------

\* strip_telemetry has run on a mount that has a metadata file
StripReturns ==
    /\ last'.op = "strip_telemetry"
    /\ mounts[last'.mp].metadata.exists

\* metadata.json of the mount before and after the call, as JSON objects
StripBefore == mounts[last'.mp].metadata.data

StripAfter == mounts'[last'.mp].metadata.data

\* the keys strip_telemetry is said to remove
StripListKeys ==
    { S_general_source_url, S_general_source_huggingface_repository,
      S_training_dataset, S_training_data_url, S_general_license,
      S_general_base_model_source }

NotInStripList(member) == member.k \notin StripListKeys

\* C26: after strip_telemetry on a mount with a metadata file no
\* telemetry-indicator key is left in metadata.json, so the telemetry
\* predicate is false on it, and the members whose key is not in the strip
\* list are the same as before, with their values and in the same order
C26_StripLeavesNoTelemetry ==
    [][StripReturns =>
          /\ mounts'[last'.mp].metadata.exists
          /\ \A i \in 1..Len(StripAfter) : StripAfter[i].k \notin TelemetryIndicatorKeys
          /\ ~detect_telemetry(json_load_dict(StripAfter))
          /\ SelectSeq(StripAfter, NotInStripList)
                 = SelectSeq(StripBefore, NotInStripList)]_vars

\* strip_telemetry has removed keys from the metadata of a source that had
\* training.dataset and general.license: general.name is still there and
\* neither of the two is
C26_Witness ==
    /\ last.op = "strip_telemetry"
    /\ last.res.val >= 2
    /\ files["a.gguf"].data = FileTelemetry
    /\ mounts[last.mp].metadata.exists
    /\ LET metadata == json_load_dict(mounts[last.mp].metadata.data) IN
       /\ DictHas(metadata, S_general_name)
       /\ ~DictHas(metadata, S_training_dataset)
       /\ ~DictHas(metadata, S_general_license)

\* ------------------------------------------------------------------------
\* The session state of the extractor (Spec)
\* ------------------------------------------------------------------------

\* C27: a virtual_mount that raises leaves virtual_mounts and temp_dirs as
\* they were before the call
C27_FailedMountLeavesSession ==
    [][(last'.op = "virtual_mount" /\ last'.err # NoErr)
           => UNCHANGED << virtual_mounts, temp_dirs >>]_vars

\* no mount is registered and no temporary directory is left
NothingMounted ==
    /\ temp_dirs = << >>
    /\ \A m \in MountPoints : ~virtual_mounts[m].mounted
    /\ disk_tmp = { }

\* a mount point becomes registered only by a virtual_mount of it that returns
RegisteredByMountOnly ==
    \A m \in MountPoints :
        (~virtual_mounts[m].mounted /\ virtual_mounts'[m].mounted)
            => (last'.op = "virtual_mount" /\ last'.mp = m /\ last'.err = NoErr)

\* a save of a mount point that is not registered fails and writes nothing
UnregisteredSaveFails ==
    (SaveEnds /\ ~virtual_mounts[last'.mp].mounted)
        => (last'.err # NoErr /\ files' = files)

SavedWorkflow == CHOOSE w \in Workflows : CliMountPoint(w) = last.mp

\* C29: a save command for a mount point that a mount command has created
\* finds the mount, whatever other mount points have been mounted since, and
\* writes the output file from the source file of that mount
C29_MountsStaySavable ==
    (last.op = "cmd_save" /\ mounts[last.mp].metadata.exists) =>
        /\ last.err = NoErr
        /\ last.res.val = "Modified GGUF saved"
        /\ files[last.path].exists
        /\ files[last.path] = files[CliSource(SavedWorkflow)]

====
